---- MODULE Spec2Model ----
(***************************************************************************)
(* A model of src/app.py, the Streamlit application "Mecrobet Marga":      *)
(* the Gemini client with retry (call_gemini_api_with_retry), the roadmap  *)
(* parser (parse_markdown_roadmap), the progressive unlock controller      *)
(* (handle_completion, display_interactive_roadmap) and the two pages      *)
(* (roadmap_generator_page, assignment_hub_page).                          *)
(*                                                                         *)
(* A Python string is modelled as the sequence of its lines; each line is  *)
(* a TLA+ string.  A failure message of the client is a string whose first *)
(* line starts with "Error:", exactly as in the source.                    *)
(***************************************************************************)
EXTENDS Integers, Sequences, FiniteSets, TLC

VARIABLES
    API_KEY,            \* module global API_KEY (src/app.py:13), "" when unset
    json_error_is_request_exception,
                        \* whether response.json() raises a RequestException
                        \* (requests >= 2.27) or a plain ValueError on a body
                        \* that is not JSON; fixed by the installed library
    script,             \* what the transport does on attempt 1, 2, 3
    response_text,      \* the text a well-formed response carries
    client,             \* call_gemini_api_with_retry: position and locals
    session,            \* st.session_state: the keys that are always set
    present,            \* st.session_state: which optional keys are set
    progress,           \* st.session_state.progress
    structured_roadmap, \* st.session_state.structured_roadmap
    last_assignment,    \* st.session_state.last_assignment
    last_feedback,      \* st.session_state.last_feedback
    ui,                 \* what the last script run put on the page
    uploaded_files,     \* the value of the file uploader of the roadmap tab
                        \* (key "roadmap_uploader", lines 514-519)
    payload,            \* the payload of the last call of
                        \* call_gemini_api_with_retry made for a roadmap
                        \* (line 256), << >> before the first
    document,           \* the text parse_markdown_roadmap is called with
    parsed              \* << >> before it returned, then <<its value>>

clientVars == <<script, response_text, client>>
parserVars == <<document, parsed>>
sessionVars == <<session, present, progress, structured_roadmap,
                 last_assignment, last_feedback, ui, uploaded_files, payload>>
vars == <<API_KEY, json_error_is_request_exception, script, response_text,
          client, session, present, progress, structured_roadmap,
          last_assignment, last_feedback, ui, uploaded_files, payload,
          document, parsed>>

(***************************************************************************)
(* Bounds of the model.                                                    *)
(***************************************************************************)
MaxDocLines == 2        \* a generated roadmap text has at most this many lines
MaxParseLines == 4      \* a text given to the parser alone has at most this many
MaxFiles == 2           \* the uploader holds at most this many files

(***************************************************************************)
(* Program constants.                                                      *)
(***************************************************************************)
max_retries == 3

Keys == {"", "secret-key"}

(***************************************************************************)
(* Strings.                                                                *)
(***************************************************************************)
ErrorPrefix == "Error:"

\* str.startswith("Error:")
StartsWithError(s) == Len(s) > 0 /\ s[1] = ErrorPrefix

MsgApiKeyMissing ==
    <<ErrorPrefix, "API Key is missing. Please ensure GEMINI_API_KEY is set in Streamlit Secrets.">>

MsgEmptyStructure ==
    <<ErrorPrefix, "LLM returned an empty or unexpected response structure.">>

MsgConnectFailed(retries, detail) ==
    <<ErrorPrefix, "Failed to connect to LLM after", ToString(retries), "attempts.", detail>>

MsgUnexpected(detail) ==
    <<ErrorPrefix, "An unexpected error occurred during API processing:", detail>>

MsgUnknown ==
    <<ErrorPrefix, "Unknown failure during API interaction.">>

(***************************************************************************)
(* The transport and the service, seen from one requests.post call.  An    *)
(* outcome names what the network and the service do on one attempt.       *)
(***************************************************************************)
Outcomes ==
    { "well_formed",          \* 2xx, candidates[0].content.parts[0].text set
      "no_candidates_key",    \* 2xx, {}
      "empty_candidates",     \* 2xx, {"candidates": []}
      "empty_candidate",      \* 2xx, {"candidates": [{}]}
      "no_content",           \* 2xx, {"candidates": [{"finishReason": ..}]}
      "no_parts",             \* 2xx, content without "parts"
      "empty_parts",          \* 2xx, "parts": []
      "no_text",              \* 2xx, first part without "text"
      "empty_text",           \* 2xx, "text": ""
      "not_json",             \* 2xx, body is not JSON
      "http_error",           \* 4xx or 5xx status
      "connection_error",     \* requests.post raises ConnectionError / Timeout
      "other_exception" }     \* requests.post raises something else

\* The decoded body of a 2xx response, as response.json() returns it.
\* A dict is a function on its keys, a list a sequence, {} the empty function.
EmptyDict == <<>>

JsonBody(outcome, text) ==
    CASE outcome = "well_formed" ->
            [candidates |-> << [content |-> [parts |-> << [text |-> text] >>]] >>]
      [] outcome = "no_candidates_key" -> [promptFeedback |-> "blocked"]
      [] outcome = "empty_candidates" -> [candidates |-> << >>]
      [] outcome = "empty_candidate" -> [candidates |-> << EmptyDict >>]
      [] outcome = "no_content" -> [candidates |-> << [finishReason |-> "SAFETY"] >>]
      [] outcome = "no_parts" ->
            [candidates |-> << [content |-> [role |-> "model"]] >>]
      [] outcome = "empty_parts" ->
            [candidates |-> << [content |-> [parts |-> << >>]] >>]
      [] outcome = "no_text" ->
            [candidates |-> << [content |-> [parts |-> << [thought |-> "x"] >>]] >>]
      [] outcome = "empty_text" ->
            [candidates |-> << [content |-> [parts |-> << [text |-> << >>] >>]] >>]

\* dict.get(key, default)
Get(dict, key, default) == IF key \in DOMAIN dict THEN dict[key] ELSE default

\* The value of one evaluation of the try block: either it returns a string
\* (exc = "none") or it raises (exc is the class the except clauses see).
Returned(s) == [exc |-> "none", ret |-> s]
Raised(class) == [exc |-> class, ret |-> << >>]

\* str(e) of the exception caught, by class.
Detail(class) ==
    IF class = "RequestException" THEN "(Details: request failed)"
                                  ELSE "(unexpected exception)"

\* Lines 103-109, on a decoded body.
ExtractText(result) ==
    LET candidates == Get(result, "candidates", << EmptyDict >>)
    IN  IF Len(candidates) = 0
        THEN Raised("Exception")
        ELSE
          LET candidate == candidates[1]
              parts == Get(Get(candidate, "content", EmptyDict), "parts", << EmptyDict >>)
          IN  IF DOMAIN candidate = {}
              THEN Returned(MsgEmptyStructure)
              ELSE IF Len(parts) = 0
              THEN Raised("Exception")
              ELSE IF Get(parts[1], "text", << >>) # << >>
              THEN Returned(candidate["content"]["parts"][1]["text"])
              ELSE Returned(MsgEmptyStructure)

\* Lines 97-109: the try block of one attempt.
TryBlock(outcome, text, jsonErrIsReqExc) ==
    CASE outcome = "connection_error" ->
            Raised("RequestException")
      [] outcome = "other_exception" ->
            Raised("Exception")
      [] outcome = "http_error" ->
            Raised("RequestException")
      [] outcome = "not_json" ->
            Raised(IF jsonErrIsReqExc THEN "RequestException" ELSE "Exception")
      [] OTHER -> ExtractText(JsonBody(outcome, text))

(***************************************************************************)
(* call_gemini_api_with_retry, one step at a time.  A client state is      *)
(*   pc       "idle" | "loop" | "done"                                     *)
(*   attempt  the loop variable (zero-based)                               *)
(*   posts    the number of requests.post calls made so far                *)
(*   sleeps   the arguments of the time.sleep calls made so far            *)
(*   ret      the value returned (meaningful when pc = "done")             *)
(***************************************************************************)
ClientIdle ==
    [pc |-> "idle", attempt |-> 0, posts |-> 0, sleeps |-> << >>, ret |-> << >>]

\* ClientEnter without the credential check.
ClientEnter_NoKeyCheck(c, key) ==
    [c EXCEPT !.pc = "loop", !.attempt = 0]

\* Lines 92-94: the credential check on entry.
ClientEnter(c, key) ==
    IF key = ""
    THEN [c EXCEPT !.pc = "done", !.ret = MsgApiKeyMissing]
    ELSE [c EXCEPT !.pc = "loop", !.attempt = 0]

\* OnRequestException with the bound of the retry test off by one: the last
\* attempt sleeps too and the loop runs out.
OnRequestException_OffByOne(c) ==
    IF c.attempt < max_retries
    THEN [c EXCEPT !.sleeps = Append(@, 2 ^ c.attempt),
                   !.attempt = @ + 1]
    ELSE [c EXCEPT !.pc = "done",
                   !.ret = MsgConnectFailed(max_retries, Detail("RequestException"))]

\* Lines 111-116: except requests.exceptions.RequestException.
OnRequestException(c) ==
    IF c.attempt < max_retries - 1
    THEN [c EXCEPT !.sleeps = Append(@, 2 ^ c.attempt),
                   !.attempt = @ + 1]
    ELSE [c EXCEPT !.pc = "done",
                   !.ret = MsgConnectFailed(max_retries, Detail("RequestException"))]

\* Lines 117-118: except Exception.
OnOtherException(c) ==
    [c EXCEPT !.pc = "done", !.ret = MsgUnexpected(Detail("Exception"))]

\* Lines 96-119: one iteration of the for loop, or its exit.
ClientAttempt(c, outcome, text, jsonErrIsReqExc) ==
    IF c.attempt >= max_retries
    THEN [c EXCEPT !.pc = "done", !.ret = MsgUnknown]
    ELSE
      LET posted == [c EXCEPT !.posts = @ + 1]
          r == TryBlock(outcome, text, jsonErrIsReqExc)
      IN  CASE r.exc = "none" -> [posted EXCEPT !.pc = "done", !.ret = r.ret]
            [] r.exc = "RequestException" -> OnRequestException(posted)
            [] r.exc = "Exception" -> OnOtherException(posted)


\* The whole call, run to its return.
RECURSIVE ClientRun(_, _, _, _)
ClientRun(c, plan, text, jsonErrIsReqExc) ==
    IF c.pc = "done" THEN c
    ELSE ClientRun(ClientAttempt(c, plan[c.attempt + 1], text, jsonErrIsReqExc),
                   plan, text, jsonErrIsReqExc)

Scripts == [1..max_retries -> Outcomes]

\* The strings call_gemini_api_with_retry can return for a credential, a
\* library and a set of texts the service may answer with.
CallReturns(key, jsonErrIsReqExc, texts) ==
    { ClientRun(ClientEnter(ClientIdle, key), plan, text, jsonErrIsReqExc).ret :
        plan \in Scripts, text \in texts }

(***************************************************************************)
(* parse_markdown_roadmap.  A line either contains a match of the heading  *)
(* pattern of line 125 or it does not; a match runs to the end of its      *)
(* line, because the dot does not match a newline.                         *)
(***************************************************************************)
HeadingLines == {"## Day 1", "## Day 2", "## week 2"}
BodyLines == {"A", "B"}
Lines == HeadingLines \cup BodyLines

IsHeading(line) == line \in HeadingLines

\* Group 2 of the pattern: the word matched by (Day|Week), as written.
HeadingGroup(line) == IF line = "## week 2" THEN "week" ELSE "Day"

\* line.replace('## ', '', 1)
RemoveMarker(line) ==
    CASE line = "## Day 1" -> "Day 1"
      [] line = "## Day 2" -> "Day 2"
      [] line = "## week 2" -> "week 2"
      [] OTHER -> line

HasMarker(line) == line \in HeadingLines

\* str.strip(): blank lines at either end go.
RECURSIVE Strip(_)
Strip(s) ==
    IF s = << >> THEN s
    ELSE IF Head(s) = "" THEN Strip(Tail(s))
    ELSE IF s[Len(s)] = "" THEN Strip(SubSeq(s, 1, Len(s) - 1))
    ELSE s

\* str.replace('## ', '', 1): the first occurrence only.
RECURSIVE ReplaceFirstMarker(_)
ReplaceFirstMarker(s) ==
    IF s = << >> THEN s
    ELSE IF HasMarker(Head(s)) THEN <<RemoveMarker(Head(s))>> \o Tail(s)
    ELSE <<Head(s)>> \o ReplaceFirstMarker(Tail(s))

\* re.split with a pattern of two capturing groups: the text before each
\* match, then group 1, then group 2, and at last the text after the final
\* match.  cur is the text gathered since the last match.
RECURSIVE ReSplit(_, _, _)
ReSplit(doc, cur, acc) ==
    IF doc = << >> THEN Append(acc, cur)
    ELSE IF IsHeading(Head(doc))
    THEN ReSplit(Tail(doc), << >>,
                 acc \o << cur, <<Head(doc)>>, <<HeadingGroup(Head(doc))>> >>)
    ELSE ReSplit(Tail(doc), Append(cur, Head(doc)), acc)

\* Lines 132-142: the loop over range(1, len(steps), 2); steps is zero-based
\* in the source and one-based here.
RECURSIVE ParseLoop(_, _, _)
ParseLoop(steps, i, parsed_steps) ==
    IF i >= Len(steps) THEN parsed_steps
    ELSE ParseLoop(steps, i + 2,
            IF i + 1 < Len(steps)
            THEN Append(parsed_steps,
                   [title |-> Strip(ReplaceFirstMarker(Strip(steps[i + 1]))),
                    content_markdown |-> Strip(steps[i + 2])])
            ELSE parsed_steps)

parse_markdown_roadmap(markdown_text) ==
    ParseLoop(ReSplit(markdown_text, << >>, << >>), 1, << >>)


(***************************************************************************)
(* The inputs of the session.                                              *)
(***************************************************************************)
RECURSIVE DocsOfLength(_, _)
DocsOfLength(lines, n) ==
    IF n = 0 THEN { << >> }
    ELSE { Append(d, l) : d \in DocsOfLength(lines, n - 1), l \in lines }

\* The texts the service answers a roadmap request with (never empty: an
\* empty text is the outcome "empty_text").
\* One of them starts with "Error:", as a failure message does.
RoadmapLines == {"## Day 1", "A"}
RoadmapTexts ==
    UNION { DocsOfLength(RoadmapLines, n) : n \in 1..MaxDocLines }
      \cup { <<ErrorPrefix, "A">> }

\* The texts it answers an assignment or a grading request with.
HubTexts == { <<"A">> }

DefaultTopic == "Data Science Basics"
TopicInputs == {"", DefaultTopic, "Linear Algebra"}

\* Lines 401-406.
Insights ==
    { "You've got this!", "Your brain needs breaks!",
      "To really own a concept, try teaching it to someone else",
      "Don't worry about perfection" }

\* Line 402, the first of them.
FirstInsight == "You've got this!"

\* What call_gemini_api_with_retry can return to generate_roadmap_content,
\* by credential and library.
RoadmapReturnsNoKeyNew == CallReturns("", TRUE, RoadmapTexts)
RoadmapReturnsNoKeyOld == CallReturns("", FALSE, RoadmapTexts)
RoadmapReturnsKeyNew == CallReturns("secret-key", TRUE, RoadmapTexts)
RoadmapReturnsKeyOld == CallReturns("secret-key", FALSE, RoadmapTexts)

RoadmapReturns(key, lib) ==
    CASE key = "" /\ lib -> RoadmapReturnsNoKeyNew
      [] key = "" /\ ~lib -> RoadmapReturnsNoKeyOld
      [] key # "" /\ lib -> RoadmapReturnsKeyNew
      [] key # "" /\ ~lib -> RoadmapReturnsKeyOld

\* What it can return to the assignment hub.
HubReturnsNoKeyNew == CallReturns("", TRUE, HubTexts)
HubReturnsNoKeyOld == CallReturns("", FALSE, HubTexts)
HubReturnsKeyNew == CallReturns("secret-key", TRUE, HubTexts)
HubReturnsKeyOld == CallReturns("secret-key", FALSE, HubTexts)

HubReturns(key, lib) ==
    CASE key = "" /\ lib -> HubReturnsNoKeyNew
      [] key = "" /\ ~lib -> HubReturnsNoKeyOld
      [] key # "" /\ lib -> HubReturnsKeyNew
      [] key # "" /\ ~lib -> HubReturnsKeyOld

(***************************************************************************)
(* The messages the pages put out with st.error and st.warning.            *)
(***************************************************************************)
MsgPreviousFirst == <<"Please complete the previous step first!">>
MsgIndexError == <<"IndexError: list index out of range">>
MsgEnterSubject == <<"Hold up! Please enter a subject to start your path!">>
MsgUploadFirst ==
    <<"Please upload your solution file first before requesting feedback!">>
MsgSubmissionUnreadable == <<"Could not process submission file.">>

(***************************************************************************)
(* The progressive unlock controller.  An index is zero-based, as in the   *)
(* source; sequences are one-based, so progress[index] of the source is    *)
(* prog[index + 1] here.                                                   *)
(***************************************************************************)
AllFalse(n) == [i \in 1..n |-> FALSE]

\* handle_completion without its test of the predecessor.
handle_completion_Unguarded(prog, index) ==
    [progress |-> [prog EXCEPT ![index + 1] = TRUE], messages |-> {}]

\* handle_completion rejecting without a message.
handle_completion_Silent(prog, index) ==
    IF index = 0 \/ prog[index]
    THEN [progress |-> [prog EXCEPT ![index + 1] = TRUE], messages |-> {}]
    ELSE [progress |-> prog, messages |-> {}]

\* Whether handle_completion(index) reads or writes the list past its end:
\* progress[index - 1] at line 261, or progress[index] at line 262.
RaisesIndexError(prog, index) ==
    \/ index - 1 >= Len(prog)
    \/ index >= Len(prog) /\ (index = 0 \/ prog[index])

\* handle_completion(index), lines 258-266: the new progress vector and the
\* messages put out.
handle_completion(prog, index) ==
    IF index = 0 \/ prog[index]
    THEN [progress |-> [prog EXCEPT ![index + 1] = TRUE], messages |-> {}]
    ELSE [progress |-> prog, messages |-> {MsgPreviousFirst}]

\* The callback as the framework runs it: an exception it raises is shown
\* on the page and the session stays as it was.
RunCallback(prog, index) ==
    IF RaisesIndexError(prog, index)
    THEN [progress |-> prog, messages |-> {MsgIndexError}]
    ELSE handle_completion(prog, index)

\* Lines 273-275 of display_interactive_roadmap.
EnsureProgress(keys, prog, roadmap) ==
    IF "progress" \notin keys \/ Len(prog) # Len(roadmap)
    THEN AllFalse(Len(roadmap))
    ELSE prog

\* RenderStep drawing the button on every step that is not completed.
RenderStep_ButtonOnLocked(roadmap, prog, i) ==
    LET step == roadmap[i + 1]
        is_completed == prog[i + 1]
        is_unlocked == i = 0 \/ prog[i]
    IN  IF ~is_unlocked /\ ~is_completed
        THEN [title |-> step.title, locked |-> TRUE, content_shown |-> FALSE,
              content |-> << >>, completed |-> FALSE, button |-> TRUE]
        ELSE [title |-> step.title, locked |-> FALSE, content_shown |-> TRUE,
              content |-> step.content_markdown, completed |-> is_completed,
              button |-> ~is_completed]

\* RenderStep drawing the content of a locked step under its placeholder.
RenderStep_ShowsLocked(roadmap, prog, i) ==
    LET step == roadmap[i + 1]
        is_completed == prog[i + 1]
        is_unlocked == i = 0 \/ prog[i]
    IN  [title |-> step.title, locked |-> ~is_unlocked /\ ~is_completed,
         content_shown |-> TRUE, content |-> step.content_markdown,
         completed |-> is_completed,
         button |-> (is_unlocked \/ is_completed) /\ ~is_completed]

\* Lines 279-323: what is drawn for step i (zero-based).
RenderStep(roadmap, prog, i) ==
    LET step == roadmap[i + 1]
        is_completed == prog[i + 1]
        is_unlocked == i = 0 \/ prog[i]
    IN  IF ~is_unlocked /\ ~is_completed
        THEN [title |-> step.title, locked |-> TRUE, content_shown |-> FALSE,
              content |-> << >>, completed |-> FALSE, button |-> FALSE]
        ELSE [title |-> step.title, locked |-> FALSE, content_shown |-> TRUE,
              content |-> step.content_markdown, completed |-> is_completed,
              button |-> ~is_completed]

RenderSteps(roadmap, prog) ==
    [k \in 1..Len(roadmap) |-> RenderStep(roadmap, prog, k - 1)]

\* Line 531: the condition under which the roadmap page draws the roadmap.
ShouldDisplay(sess, keys, roadmap) ==
    sess.has_generated /\ "structured_roadmap" \in keys /\ roadmap # << >>

\* Lines 530-532 with display_interactive_roadmap: the end of the roadmap
\* page.  An optional value of the page is << >> (not drawn) or <<v>>.
RoadmapPageEnd(sess, keys, prog, roadmap) ==
    IF ShouldDisplay(sess, keys, roadmap)
    THEN LET p == EnsureProgress(keys, prog, roadmap)
         IN  [progress |-> p,
              present |-> keys \cup {"progress"},
              steps |-> RenderSteps(roadmap, p),
              roadmap_download |->
                 << [roadmap_markdown |-> sess.current_roadmap_text,
                     insight_text |-> sess.current_insight] >>]
    ELSE [progress |-> prog, present |-> keys, steps |-> << >>,
          roadmap_download |-> << >>]

\* Lines 553-554 and 609-622: what the hub draws when no button of it was
\* pressed in this run.
HubIdle(keys, la, lf) ==
    [assignment |-> IF "last_assignment" \in keys THEN <<la>> ELSE << >>,
     feedback |-> IF "last_feedback" \in keys THEN <<lf>> ELSE << >>,
     feedback_download |-> IF "last_feedback" \in keys THEN <<lf>> ELSE << >>]

BlankPage ==
    [messages |-> {}, roadmap_header |-> << >>, steps |-> << >>,
     roadmap_download |-> << >>,
     assignment |-> << >>, feedback |-> << >>, feedback_download |-> << >>]

\* The page of one script run: the roadmap tab, then the hub.  header is the
\* heading of lines 412-437, drawn by the run that generated a roadmap.
Page(messages, header, road, hub) ==
    [messages |-> messages, roadmap_header |-> header, steps |-> road.steps,
     roadmap_download |-> road.roadmap_download,
     assignment |-> hub.assignment, feedback |-> hub.feedback,
     feedback_download |-> hub.feedback_download]

(***************************************************************************)
(* The uploaded files.  A file buffer has a name, a MIME type and bytes;   *)
(* fault tells where get_base64_image fails on it: "none", "read" (line    *)
(* 85 raises) or "seek" (line 86 raises, after the bytes were read).       *)
(***************************************************************************)
UploadableFiles ==
    { [name |-> "notes.png", type |-> "image/png", bytes |-> "PNG", fault |-> "none"],
      [name |-> "notes.png", type |-> "image/png", bytes |-> "PNG", fault |-> "read"],
      [name |-> "board.jpg", type |-> "image/jpeg", bytes |-> "JPG", fault |-> "seek"] }

\* The values the uploader can hold (accept_multiple_files, line 517).
UploadLists == UNION { DocsOfLength(UploadableFiles, n) : n \in 0..MaxFiles }

\* base64.b64encode(bytes_data).decode(), on the bytes of the files above.
Base64(bytes) ==
    CASE bytes = "PNG" -> "UE5H"
      [] bytes = "JPG" -> "SlBH"

\* get_base64_image(file_buffer), lines 83-88: the pair returned, or raised.
get_base64_image(file_buffer) ==
    IF file_buffer.fault \in {"read", "seek"}
    THEN [exc |-> "Exception", ret |-> << >>]
    ELSE [exc |-> "none", ret |-> <<Base64(file_buffer.bytes), file_buffer.type>>]

\* Line 377.
MsgCouldNotProcess(name) == <<"Could not process uploaded file", name>>

\* EncodeLoop giving up at the first file that fails.
RECURSIVE EncodeLoop_AbortsOnFailure(_, _, _)
EncodeLoop_AbortsOnFailure(files, k, acc) ==
    IF k > Len(files) THEN acc
    ELSE
      LET file_buffer == files[k]
          r == get_base64_image(file_buffer)
      IN  IF r.exc = "none"
          THEN EncodeLoop_AbortsOnFailure(files, k + 1,
                 [acc EXCEPT !.file_parts =
                    Append(@, [inlineData |-> [mimeType |-> r.ret[2],
                                               data |-> r.ret[1]]])])
          ELSE [acc EXCEPT !.warnings =
                    @ \cup {MsgCouldNotProcess(file_buffer.name)}]

\* Lines 360-377: the loop over the uploaded files, from file number k on;
\* acc holds file_parts and the warnings put out so far.
RECURSIVE EncodeLoop(_, _, _)
EncodeLoop(files, k, acc) ==
    IF k > Len(files) THEN acc
    ELSE
      LET file_buffer == files[k]
          r == get_base64_image(file_buffer)
      IN  EncodeLoop(files, k + 1,
            IF r.exc = "none"
            THEN [acc EXCEPT !.file_parts =
                    Append(@, [inlineData |-> [mimeType |-> r.ret[2],
                                               data |-> r.ret[1]]])]
            ELSE [acc EXCEPT !.warnings =
                    @ \cup {MsgCouldNotProcess(file_buffer.name)}])

\* Lines 353-379.
EncodeFiles(files) ==
    EncodeLoop(files, 1, [file_parts |-> << >>, warnings |-> {}])

\* Lines 244-248: the user query, which names the topic.
UserQuery(topic) ==
    <<"Generate a personalized study roadmap for the topic:", topic>>

\* Lines 251-255: the payload call_gemini_api_for_roadmap hands to
\* call_gemini_api_with_retry.
RoadmapPayload(topic, file_parts) ==
    [contents |-> << [parts |-> file_parts \o << [text |-> UserQuery(topic)] >>] >>,
     systemInstruction |-> [parts |-> << [text |-> "Act as Marga"] >>],
     tools |-> << [google_search |-> EmptyDict] >>]

\* generate_roadmap_content dropping the stored roadmap when the call fails.
generate_roadmap_content_ClearsOnFailure(sess, keys, roadmap, topic, files, roadmap_markdown, insight_text) ==
    LET entered == [sess EXCEPT !.topic = topic, !.has_generated = FALSE]
        encoded == EncodeFiles(files)
        sent == RoadmapPayload(topic, encoded.file_parts)
    IN  IF StartsWithError(roadmap_markdown)
        THEN [session |-> [entered EXCEPT !.current_roadmap_text = << >>],
              present |-> keys,
              structured_roadmap |-> << >>, payload |-> <<sent>>,
              messages |-> encoded.warnings \cup {roadmap_markdown},
              header |-> << >>]
        ELSE [session |-> [entered EXCEPT
                              !.current_roadmap_text = roadmap_markdown,
                              !.current_insight = insight_text,
                              !.has_generated = TRUE],
              present |-> keys \cup {"structured_roadmap"},
              structured_roadmap |-> parse_markdown_roadmap(roadmap_markdown),
              payload |-> <<sent>>,
              messages |-> encoded.warnings,
              header |-> << [topic |-> topic, insight_text |-> insight_text] >>]

(***************************************************************************)
(* generate_roadmap_content, lines 347-409: the session after the call     *)
(* returned roadmap_markdown, the payload the call was made with and the   *)
(* messages put out.                                                       *)
(***************************************************************************)
generate_roadmap_content(sess, keys, roadmap, topic, files, roadmap_markdown, insight_text) ==
    LET entered == [sess EXCEPT !.topic = topic, !.has_generated = FALSE]
        encoded == EncodeFiles(files)
        sent == RoadmapPayload(topic, encoded.file_parts)
    IN  IF StartsWithError(roadmap_markdown)
        THEN [session |-> entered, present |-> keys,
              structured_roadmap |-> roadmap, payload |-> <<sent>>,
              messages |-> encoded.warnings \cup {roadmap_markdown},
              header |-> << >>]
        ELSE [session |-> [entered EXCEPT
                              !.current_roadmap_text = roadmap_markdown,
                              !.current_insight = insight_text,
                              !.has_generated = TRUE],
              present |-> keys \cup {"structured_roadmap"},
              structured_roadmap |-> parse_markdown_roadmap(roadmap_markdown),
              payload |-> <<sent>>,
              messages |-> encoded.warnings,
              header |-> << [topic |-> topic, insight_text |-> insight_text] >>]


(***************************************************************************)
(* The state after the first script run of a session (lines 627-639): the  *)
(* defaults are set and nothing was generated.                             *)
(***************************************************************************)
InitialSession ==
    [topic |-> DefaultTopic, has_generated |-> FALSE,
     current_roadmap_text |-> << >>, current_insight |-> "No insight yet."]

InitSessionVars ==
    /\ session = InitialSession
    /\ present = {}
    /\ progress = << >>
    /\ structured_roadmap = << >>
    /\ last_assignment = << >>
    /\ last_feedback = << >>
    /\ ui = BlankPage
    /\ uploaded_files = << >>
    /\ payload = << >>

InitParserVars ==
    /\ document = << >>
    /\ parsed = << >>

Init ==
    /\ API_KEY \in Keys
    /\ json_error_is_request_exception \in BOOLEAN
    /\ script = [a \in 1..max_retries |-> "well_formed"]
    /\ response_text = <<"A">>
    /\ client = ClientIdle
    /\ InitSessionVars
    /\ InitParserVars

(***************************************************************************)
(* One action per thing the user does; each is one whole script run: the   *)
(* callback or the button's branch, then both pages drawn again.           *)
(***************************************************************************)

\* A script run in which no button was pressed.
RunScript ==
    /\ \E road \in {RoadmapPageEnd(session, present, progress, structured_roadmap)} :
        /\ progress' = road.progress
        /\ present' = road.present
        /\ ui' = Page({}, << >>, road, HubIdle(road.present, last_assignment, last_feedback))
    /\ UNCHANGED <<session, structured_roadmap, last_assignment, last_feedback,
                   payload>>
    /\ UNCHANGED <<API_KEY, json_error_is_request_exception, clientVars, parserVars>>

\* A rerun in which no button was pressed and no widget changed.
Rerun ==
    /\ RunScript
    /\ UNCHANGED uploaded_files

\* The user changes the files of the uploader (lines 514-519); the script
\* runs again.
Upload(files) ==
    /\ files # uploaded_files
    /\ uploaded_files' = files
    /\ RunScript

\* Lines 523-528: the branch of the button "Generate My Marga (Roadmap)".
\* payload is << >> when no call was made, else <<the payload of the call>>.
GenerateButton(sess, keys, roadmap, topic, files, roadmap_markdown, insight_text) ==
    IF topic # ""
    THEN generate_roadmap_content(sess, keys, roadmap, topic, files,
                                  roadmap_markdown, insight_text)
    ELSE [session |-> sess, present |-> keys, structured_roadmap |-> roadmap,
          payload |-> << >>,
          messages |-> {MsgEnterSubject}, header |-> << >>]

\* "Generate My Marga (Roadmap)" pressed, lines 523-532.
ClickGenerate(topic, roadmap_markdown, insight_text) ==
    /\ \E g \in {GenerateButton(session, present, structured_roadmap, topic,
                               uploaded_files, roadmap_markdown, insight_text)} :
       \E road \in {RoadmapPageEnd(g.session, g.present, progress,
                                  g.structured_roadmap)} :
        /\ session' = g.session
        /\ structured_roadmap' = g.structured_roadmap
        /\ progress' = road.progress
        /\ present' = road.present
        /\ payload' = IF g.payload = << >> THEN payload ELSE g.payload[1]
        /\ ui' = Page(g.messages, g.header, road,
                      HubIdle(road.present, last_assignment, last_feedback))
    /\ UNCHANGED <<last_assignment, last_feedback, uploaded_files>>
    /\ UNCHANGED <<API_KEY, json_error_is_request_exception, clientVars, parserVars>>

\* The callback handle_completion(index) runs, then the script.
HandleCompletionRun(index) ==
    /\ \E h \in {RunCallback(progress, index)} :
       \E road \in {RoadmapPageEnd(session, present, h.progress,
                                  structured_roadmap)} :
        /\ progress' = road.progress
        /\ present' = road.present
        /\ ui' = Page(h.messages, << >>, road,
                      HubIdle(road.present, last_assignment, last_feedback))
    /\ UNCHANGED <<session, structured_roadmap, last_assignment, last_feedback,
                   uploaded_files, payload>>
    /\ UNCHANGED <<API_KEY, json_error_is_request_exception, clientVars, parserVars>>

\* handle_completion called with an index of the progress vector.
CallHandleCompletion(index) ==
    /\ "progress" \in present
    /\ index \in 0..(Len(progress) - 1)
    /\ HandleCompletionRun(index)

\* "Generate Checkpoint Assignment" pressed, lines 548-554.
ClickGenerateAssignment(assignment_text) ==
    /\ \E road \in {RoadmapPageEnd(session, present, progress, structured_roadmap)} :
       \E keys \in {road.present \cup {"last_assignment"}} :
        /\ last_assignment' = assignment_text
        /\ progress' = road.progress
        /\ present' = keys
        /\ ui' = Page({}, << >>, road, HubIdle(keys, assignment_text, last_feedback))
    /\ UNCHANGED <<session, structured_roadmap, last_feedback,
                   uploaded_files, payload>>
    /\ UNCHANGED <<API_KEY, json_error_is_request_exception, clientVars, parserVars>>

\* Lines 569-607: what the hub draws and stores when "Get My Grade &
\* Feedback" was pressed.  file is "none" (nothing uploaded), "unreadable"
\* (get_base64_image raises) or "ok".
GradeButton(keys, la, lf, file, feedback_markdown) ==
    LET idle == HubIdle(keys, la, lf)
    IN  CASE file = "ok" ->
               [last_feedback |-> feedback_markdown,
                present |-> keys \cup {"last_feedback"},
                messages |-> {},
                hub |-> [idle EXCEPT !.feedback = <<feedback_markdown>>,
                                     !.feedback_download = <<feedback_markdown>>]]
          [] file = "unreadable" ->
               [last_feedback |-> lf, present |-> keys,
                messages |-> {MsgSubmissionUnreadable},
                hub |-> [idle EXCEPT !.feedback = << >>,
                                     !.feedback_download = << >>]]
          [] file = "none" ->
               [last_feedback |-> lf, present |-> keys,
                messages |-> {MsgUploadFirst},
                hub |-> [idle EXCEPT !.feedback = << >>,
                                     !.feedback_download = << >>]]

ClickGrade(file, feedback_markdown) ==
    /\ \E road \in {RoadmapPageEnd(session, present, progress, structured_roadmap)} :
       \E g \in {GradeButton(road.present, last_assignment, last_feedback, file,
                            feedback_markdown)} :
        /\ last_feedback' = g.last_feedback
        /\ progress' = road.progress
        /\ present' = g.present
        /\ ui' = Page(g.messages, << >>, road, g.hub)
    /\ UNCHANGED <<session, structured_roadmap, last_assignment,
                   uploaded_files, payload>>
    /\ UNCHANGED <<API_KEY, json_error_is_request_exception, clientVars, parserVars>>

\* The roadmap tab: generations, mark-complete calls and plain reruns.
Next ==
    \/ Rerun
    \/ ClickGenerate("", << >>, "")
    \/ \E topic \in TopicInputs \ {""}, insight_text \in Insights :
         \E roadmap_markdown \in RoadmapReturns(API_KEY, json_error_is_request_exception) :
            ClickGenerate(topic, roadmap_markdown, insight_text)
    \/ \E index \in 0..(Len(progress) - 1) : CallHandleCompletion(index)

Spec == Init /\ [][Next]_vars

\* "Mark Complete & Unlock Next" of step index pressed: the button was drawn
\* by the last run (lines 316-323), and its callback runs with the index
\* the button was drawn with.
ClickMarkComplete(index) ==
    /\ index + 1 \in DOMAIN ui.steps
    /\ ui.steps[index + 1].button
    /\ HandleCompletionRun(index)

\* The roadmap tab as the user drives it: only buttons on the page are
\* pressed.
NextUI ==
    \/ Rerun
    \/ ClickGenerate("", << >>, "")
    \/ \E topic \in TopicInputs \ {""}, insight_text \in Insights :
         \E roadmap_markdown \in RoadmapReturns(API_KEY, json_error_is_request_exception) :
            ClickGenerate(topic, roadmap_markdown, insight_text)
    \/ \E index \in 0..(Len(ui.steps) - 1) : ClickMarkComplete(index)

SpecUI == Init /\ [][NextUI]_vars

\* Both tabs.  The roadmap is generated for one topic, with one insight and
\* from the texts of at most one line.
HubRoadmapReturns ==
    { r \in RoadmapReturns(API_KEY, json_error_is_request_exception) : Len(r) = 1 \/ StartsWithError(r) }

NextHub ==
    \/ Rerun
    \/ \E roadmap_markdown \in HubRoadmapReturns :
            ClickGenerate(DefaultTopic, roadmap_markdown, "You've got this!")
    \/ \E index \in 0..(Len(progress) - 1) : CallHandleCompletion(index)
    \/ \E assignment_text \in HubReturns(API_KEY, json_error_is_request_exception) :
         ClickGenerateAssignment(assignment_text)
    \/ \E file \in {"none", "unreadable", "ok"} :
         \E feedback_markdown \in HubReturns(API_KEY, json_error_is_request_exception) :
            ClickGrade(file, feedback_markdown)

SpecHub == Init /\ [][NextHub]_vars

\* The roadmap tab with one insight: generations for two topics and the
\* buttons on the page.
NextFrame ==
    \/ Rerun
    \/ \E topic \in TopicInputs \ {""} :
         \E roadmap_markdown \in RoadmapReturns(API_KEY, json_error_is_request_exception) :
            ClickGenerate(topic, roadmap_markdown, FirstInsight)
    \/ \E index \in 0..(Len(ui.steps) - 1) : ClickMarkComplete(index)

SpecFrame == Init /\ [][NextFrame]_vars

\* The roadmap tab with uploads: the user changes the files of the uploader
\* and generates for one topic.

NextUpload ==
    \/ Rerun
    \/ \E files \in UploadLists : Upload(files)
    \/ \E roadmap_markdown \in HubRoadmapReturns :
            ClickGenerate(DefaultTopic, roadmap_markdown, FirstInsight)

SpecUpload == Init /\ [][NextUpload]_vars

(***************************************************************************)
(* The client on its own: one call of call_gemini_api_with_retry against a *)
(* transport that follows a script.                                        *)
(***************************************************************************)
ClientTexts == { <<"A">>, <<"## Day 1", "A">> }

InitClient ==
    /\ API_KEY \in Keys
    /\ json_error_is_request_exception \in BOOLEAN
    /\ script \in Scripts
    /\ response_text \in ClientTexts
    /\ client = ClientIdle
    /\ InitSessionVars
    /\ InitParserVars

\* Lines 92-94.
Enter ==
    /\ client.pc = "idle"
    /\ client' = ClientEnter(client, API_KEY)
    /\ UNCHANGED <<API_KEY, json_error_is_request_exception, script,
                   response_text, sessionVars, parserVars>>

\* One iteration of the loop of lines 96-118.
Attempt ==
    /\ client.pc = "loop"
    /\ client' = ClientAttempt(client, script[client.attempt + 1], response_text,
                               json_error_is_request_exception)
    /\ UNCHANGED <<API_KEY, json_error_is_request_exception, script,
                   response_text, sessionVars, parserVars>>

NextClient == Enter \/ Attempt

SpecClient == InitClient /\ [][NextClient]_vars

(***************************************************************************)
(* The parser on its own: parse_markdown_roadmap applied to one text.      *)
(***************************************************************************)
ParserDocs == UNION { DocsOfLength(Lines, n) : n \in 0..MaxParseLines }

InitParser ==
    /\ API_KEY = "secret-key"
    /\ json_error_is_request_exception = TRUE
    /\ script = [a \in 1..max_retries |-> "well_formed"]
    /\ response_text = <<"A">>
    /\ client = ClientIdle
    /\ InitSessionVars
    /\ document \in ParserDocs
    /\ parsed = << >>

\* Lines 121-144, from the call to the return.
Parse ==
    /\ parsed = << >>
    /\ parsed' = << parse_markdown_roadmap(document) >>
    /\ UNCHANGED <<API_KEY, json_error_is_request_exception, clientVars,
                   sessionVars, document>>

NextParser == Parse

SpecParser == InitParser /\ [][NextParser]_vars


(***************************************************************************)
(* Properties of the progressive unlock controller.                        *)
(***************************************************************************)

\* A successful generation happened in the last run: its heading is drawn.
JustGenerated == ui.roadmap_header # << >>

\* C1: in every reachable session state the progress vector is
\* prefix-closed: a step is complete only if it is the first step or its
\* predecessor is complete.
C1_ProgressPrefixClosed ==
    \A i \in 2..Len(progress) : progress[i] => progress[i - 1]

\* C1, its case: after a generation of a roadmap of at least three steps,
\* two steps were completed in order and the third is still open.
C1_Witness ==
    /\ Len(progress) >= 3
    /\ progress[1] /\ progress[2] /\ ~progress[3]

\* C2: handle_completion(i) marks step i complete if and only if i = 0 or
\* step i - 1 is complete; in every other case the progress vector stays
\* exactly as it was and the rejection message is put out.
C2_CompletionIffPredecessorDone ==
    [][ \A index \in 0..(Len(progress) - 1) :
          CallHandleCompletion(index) =>
            IF index = 0 \/ progress[index]
            THEN /\ progress'[index + 1]
                 /\ MsgPreviousFirst \notin ui'.messages
            ELSE /\ progress' = progress
                 /\ ~progress'[index + 1]
                 /\ MsgPreviousFirst \in ui'.messages ]_vars

\* C2, its case: a call was rejected while an earlier step was complete.
C2_Witness ==
    /\ MsgPreviousFirst \in ui.messages
    /\ Len(progress) >= 3
    /\ progress[1] /\ ~progress[2] /\ ~progress[3]

\* C3: whenever a successful generation produces a roadmap whose number of
\* steps differs from that of the roadmap generated before it, the progress
\* vector in force for the new roadmap is all False, one entry per step.
\* Stated for a new roadmap of at least one step, the one that is drawn.
C3_DifferentLengthDiscardsProgress ==
    [][ ( /\ ui'.roadmap_header # << >>
          /\ "structured_roadmap" \in present
          /\ Len(structured_roadmap') # Len(structured_roadmap)
          /\ Len(structured_roadmap') > 0 )
        => progress' = AllFalse(Len(structured_roadmap')) ]_vars

\* C4: after every successful generation the new roadmap is first drawn in
\* the initial state: step 0 unlocked, every other step locked, no step
\* completed.
C4_NewRoadmapDrawnInitial ==
    JustGenerated =>
       \A k \in 1..Len(ui.steps) :
          /\ ~ui.steps[k].completed
          /\ ui.steps[k].locked <=> (k > 1)


(***************************************************************************)
(* Properties of the consumers of a generation result.                     *)
(***************************************************************************)

\* The failure messages call_gemini_api_with_retry returns.
FailureMessages ==
    { MsgApiKeyMissing, MsgEmptyStructure,
      MsgConnectFailed(max_retries, Detail("RequestException")),
      MsgUnexpected(Detail("Exception")), MsgUnknown }

\* C10: a failure message is never stored as the current roadmap text, the
\* last assignment or the last feedback, and never drawn or offered for
\* download as assignment or feedback content.
C10_FailureNeverTreatedAsContent ==
    /\ session.current_roadmap_text \notin FailureMessages
    /\ "last_assignment" \in present => last_assignment \notin FailureMessages
    /\ "last_feedback" \in present => last_feedback \notin FailureMessages
    /\ \A k \in 1..Len(ui.assignment) : ui.assignment[k] \notin FailureMessages
    /\ \A k \in 1..Len(ui.feedback) : ui.feedback[k] \notin FailureMessages
    /\ \A k \in 1..Len(ui.feedback_download) :
          ui.feedback_download[k] \notin FailureMessages

(***************************************************************************)
(* Properties of call_gemini_api_with_retry.                               *)
(***************************************************************************)

\* The outcomes that are failures of the transport: the network or an HTTP
\* error status.
TransportOutcomes == {"http_error", "connection_error"}

\* The bodies of a success-status response without the expected text: no or
\* empty "candidates", no "content", "parts" or "text", an empty text, or a
\* body that is not JSON.
MalformedOutcomes ==
    { "no_candidates_key", "empty_candidates", "no_content", "no_parts",
      "no_text", "empty_text", "not_json" }

\* The outcomes in which an exception that is no failure of the transport is
\* raised while sending or decoding.
OtherExceptionOutcomes ==
    { "other_exception", "empty_candidates", "empty_parts", "not_json" }

RECURSIVE SumSeq(_)
SumSeq(q) == IF q = << >> THEN 0 ELSE Head(q) + SumSeq(Tail(q))

\* C5: without a credential the call returns the failure "API Key is
\* missing" at once: no HTTP request is made and no sleep is performed.
C5_NoCredentialNoNetwork ==
    API_KEY = "" =>
       /\ client.posts = 0
       /\ client.sleeps = << >>
       /\ client.pc # "loop"
       /\ client.pc = "done" => client.ret = MsgApiKeyMissing

\* C5, its case: a call without a credential returned, whatever the
\* transport would have answered.
C5_Witness ==
    /\ API_KEY = ""
    /\ client.pc = "done"
    /\ script[1] = "well_formed"

\* C6: with a credential, at most 3 HTTP attempts are made; k - 1 failures of
\* the transport followed by a well-formed response give exactly k attempts
\* and the response text; 3 failures of the transport give exactly 3 attempts
\* and a failure that mentions 3 attempts.
C6_BoundedRetry ==
    /\ client.posts <= 3
    /\ (API_KEY # "" /\ client.pc = "done") =>
         /\ \A k \in 1..max_retries :
              ( /\ \A j \in 1..(k - 1) : script[j] \in TransportOutcomes
                /\ script[k] = "well_formed" )
              => (client.posts = k /\ client.ret = response_text)
         /\ (\A j \in 1..max_retries : script[j] \in TransportOutcomes)
              => /\ client.posts = 3
                 /\ client.ret \in FailureMessages
                 /\ client.ret[2] = "Failed to connect to LLM after"
                 /\ client.ret[3] = "3"

\* C6, its case: two failures of the transport, then a well-formed response.
C6_Witness ==
    /\ API_KEY # ""
    /\ client.pc = "done"
    /\ script[1] \in TransportOutcomes /\ script[2] \in TransportOutcomes
    /\ script[3] = "well_formed"
    /\ client.posts = 3
    /\ client.ret = response_text

\* C7: a success-status response without the expected text ends the call on
\* that attempt with the failure "empty or unexpected response structure":
\* no retry, no sleep, no further request.
C7_MalformedResponseIsTerminal ==
    \A k \in 1..max_retries :
       (API_KEY # "" /\ client.posts >= k /\ script[k] \in MalformedOutcomes)
       => /\ client.posts = k
          /\ Len(client.sleeps) < k
          /\ client.pc = "done"
          /\ client.ret = MsgEmptyStructure

\* C8: the k-th sleep follows zero-based attempt k - 1, which failed at the
\* transport, and lasts 2^(k-1) units; a failure of the transport with an
\* attempt remaining is followed by a sleep; there is no sleep after the
\* final attempt, after a success or after another failure, and the sleeps
\* of one call add up to at most 3 units.
C8_BackoffSchedule ==
    /\ \A a \in 1..Len(client.sleeps) :
          /\ client.sleeps[a] = 2 ^ (a - 1)
          /\ a < max_retries
          /\ script[a] \in TransportOutcomes
    /\ \A a \in 1..client.posts :
          (script[a] \in TransportOutcomes /\ a < max_retries)
          => Len(client.sleeps) >= a
    /\ SumSeq(client.sleeps) <= 3

\* C9: the call ends after at most 3 attempts with the response text or a
\* failure that starts with "Error:", and an exception that is no failure of
\* the transport ends it on the attempt where it occurs, without retry.
C9_AlwaysReturnsNoRetryOnOtherException ==
    /\ client.posts <= max_retries
    /\ client.pc = "done" =>
          (client.ret = response_text \/ StartsWithError(client.ret))
    /\ \A k \in 1..client.posts :
          script[k] \in OtherExceptionOutcomes
          => (client.pc = "done" /\ client.posts = k)

(***************************************************************************)
(* Properties of the page display_interactive_roadmap draws.               *)
(***************************************************************************)

\* C12: whenever the interactive roadmap is on the page, the content of step
\* i is drawn if and only if the step is unlocked or completed (i = 0, or
\* step i - 1 is complete, or step i is complete); a locked step is drawn as
\* a placeholder only, without its content and without a button.
C12_ContentShownIffUnlockedOrCompleted ==
    \A k \in 1..Len(ui.steps) :
       LET open == k = 1 \/ progress[k - 1] \/ progress[k]
       IN  /\ ui.steps[k].content_shown <=> open
           /\ open => /\ ~ui.steps[k].locked
                      /\ ui.steps[k].content =
                            structured_roadmap[k].content_markdown
           /\ ~open => /\ ui.steps[k].locked
                       /\ ui.steps[k].content = << >>
                       /\ ~ui.steps[k].button

\* C12, its case: a roadmap on the page with a completed step, an unlocked
\* step and a locked step whose content is not empty.
C12_Witness ==
    /\ Len(ui.steps) >= 3
    /\ ui.steps[1].completed /\ ui.steps[1].content_shown
    /\ ~ui.steps[2].completed /\ ui.steps[2].content_shown
    /\ ui.steps[3].locked /\ ~ui.steps[3].content_shown
    /\ structured_roadmap[2].content_markdown # << >>

\* C14: every mark-complete call the page can trigger is legal and in range.
\* A button is on the page for step i only when step i is unlocked and not
\* completed; while a roadmap is on the page, progress and
\* structured_roadmap have the length of what was drawn; so pressing a
\* button that is on the page calls handle_completion(i) with
\* 0 <= i < len(progress) and with i = 0 or progress[i - 1] True: the step
\* becomes complete, and neither the rejection message nor an IndexError is
\* ever put out.
C14_MarkCompleteCallsLegal ==
    /\ [] ( ui.steps # << >> =>
              /\ Len(progress) = Len(ui.steps)
              /\ Len(structured_roadmap) = Len(ui.steps)
              /\ \A k \in 1..Len(ui.steps) :
                    ui.steps[k].button =>
                       /\ k = 1 \/ progress[k - 1]
                       /\ ~progress[k] )
    /\ [] ( MsgPreviousFirst \notin ui.messages /\ MsgIndexError \notin ui.messages )
    /\ [][ \A index \in 0..(Len(ui.steps) - 1) :
             ClickMarkComplete(index) =>
               /\ index < Len(progress)
               /\ index = 0 \/ progress[index]
               /\ ~RaisesIndexError(progress, index)
               /\ Len(progress') = Len(progress)
               /\ progress'[index + 1] ]_vars

\* C14, its case: the buttons of steps 0 and 1 were pressed in turn, and the
\* button of step 2 is on the page.
C14_Witness ==
    /\ Len(ui.steps) >= 3
    /\ ui.steps[1].completed /\ ui.steps[2].completed
    /\ ui.steps[3].button
    /\ ~JustGenerated

(***************************************************************************)
(* Properties of the file loop of generate_roadmap_content.                *)
(***************************************************************************)

Failing(file_buffer) == file_buffer.fault # "none"

\* The attachments of the files that do not fail, in upload order.
RECURSIVE ExpectedAttachments(_)
ExpectedAttachments(files) ==
    IF files = << >> THEN << >>
    ELSE IF Failing(Head(files)) THEN ExpectedAttachments(Tail(files))
    ELSE << [inlineData |-> [mimeType |-> Head(files).type,
                             data |-> Base64(Head(files).bytes)]] >>
         \o ExpectedAttachments(Tail(files))

\* C13: a file that cannot be read or encoded never aborts the batch.  For
\* every list of uploaded files and every set of failing files among them, a
\* generation puts out a warning naming each failing file (and none for a
\* name without a failing file), makes the call with a payload whose parts
\* are the attachments of the non-failing files in upload order followed by
\* the text part, and goes on with the value the call returned.
C13_FailedFileDoesNotAbortBatch ==
    [][ \A roadmap_markdown \in HubRoadmapReturns :
          ClickGenerate(DefaultTopic, roadmap_markdown, FirstInsight) =>
            /\ payload'.contents[1].parts =
                  ExpectedAttachments(uploaded_files)
                    \o << [text |-> UserQuery(DefaultTopic)] >>
            /\ \A k \in 1..Len(uploaded_files) :
                  Failing(uploaded_files[k]) =>
                     MsgCouldNotProcess(uploaded_files[k].name) \in ui'.messages
            /\ \A f \in UploadableFiles :
                  MsgCouldNotProcess(f.name) \in ui'.messages =>
                     \E k \in 1..Len(uploaded_files) :
                        /\ uploaded_files[k].name = f.name
                        /\ Failing(uploaded_files[k])
            /\ IF StartsWithError(roadmap_markdown)
               THEN roadmap_markdown \in ui'.messages
               ELSE /\ session'.current_roadmap_text = roadmap_markdown
                    /\ ui'.roadmap_header # << >> ]_vars

\* C13, its case: the first of two uploaded files failed, the second did
\* not; the warning names the first, the payload carries the second and the
\* text, and the roadmap was generated.
C13_Witness ==
    /\ Len(uploaded_files) = 2
    /\ Failing(uploaded_files[1]) /\ ~Failing(uploaded_files[2])
    /\ uploaded_files[1].name # uploaded_files[2].name
    /\ MsgCouldNotProcess(uploaded_files[1].name) \in ui.messages
    /\ payload # << >>
    /\ Len(payload.contents[1].parts) = 2
    /\ payload.contents[1].parts[1].inlineData.data = Base64(uploaded_files[2].bytes)
    /\ ui.roadmap_header # << >>

\* C15: a generation that ends in failure leaves the stored roadmap as it
\* was: current_roadmap_text, structured_roadmap, progress and
\* current_insight keep their values, as do the assignment and the
\* feedback; of the session only topic changes, to the topic entered, and
\* has_generated, to False, so that the roadmap generated before is no
\* longer on the page.  (A run that fails returns at line 394, before an
\* insight is drawn at line 407: which one would have been drawn makes no
\* difference to it.)
C15_FailedGenerationKeepsRoadmap ==
    [][ \A topic \in TopicInputs \ {""} :
        \A roadmap_markdown \in RoadmapReturns(API_KEY, json_error_is_request_exception) :
          ( /\ StartsWithError(roadmap_markdown)
            /\ ClickGenerate(topic, roadmap_markdown, FirstInsight) )
          => /\ session'.current_roadmap_text = session.current_roadmap_text
             /\ session'.current_insight = session.current_insight
             /\ structured_roadmap' = structured_roadmap
             /\ progress' = progress
             /\ present' = present
             /\ last_assignment' = last_assignment
             /\ last_feedback' = last_feedback
             /\ session'.topic = topic
             /\ session'.has_generated = FALSE
             /\ ui'.steps = << >>
             /\ ui'.roadmap_download = << >> ]_vars

\* C15, its case: a generation for another topic failed while a roadmap
\* with a completed step was stored; the roadmap and the progress are still
\* there and nothing of them is on the page.
C15_Witness ==
    /\ \E m \in ui.messages : StartsWithError(m)
    /\ ~session.has_generated
    /\ session.topic = "Linear Algebra"
    /\ session.current_roadmap_text # << >>
    /\ Len(structured_roadmap) >= 2
    /\ Len(progress) = Len(structured_roadmap)
    /\ progress[1]
    /\ ui.steps = << >>

(***************************************************************************)
(* Properties of parse_markdown_roadmap.                                   *)
(***************************************************************************)

\* The text from the start of doc up to the next heading or the end.
RECURSIVE ReferenceContent(_)
ReferenceContent(doc) ==
    IF doc = << >> \/ IsHeading(Head(doc)) THEN << >>
    ELSE <<Head(doc)>> \o ReferenceContent(Tail(doc))

\* The reference parser: one step per heading, in document order; the title
\* is the heading without its marker, the content the text up to the next
\* heading; the text before the first heading is dropped.
RECURSIVE ReferenceParse(_)
ReferenceParse(doc) ==
    IF doc = << >> THEN << >>
    ELSE IF IsHeading(Head(doc))
    THEN << [title |-> <<RemoveMarker(Head(doc))>>,
             content_markdown |-> ReferenceContent(Tail(doc))] >>
         \o ReferenceParse(Tail(doc))
    ELSE ReferenceParse(Tail(doc))

\* C11: parse_markdown_roadmap returns what the reference parser returns on
\* every text: for n headings exactly n steps in document order, each with
\* the heading without its marker as title and the text up to the next
\* heading as content; no step for a text without a heading.
C11_ParserAgreesWithReference ==
    parsed # << >> => parsed[1] = ReferenceParse(document)

====
